---- MODULE Spec2Model ----
(***************************************************************************)
(* Model of parity-codec's BitVec serialization (src/src/bit_vec.rs).      *)
(*                                                                         *)
(* Integers are scaled: TLC's integers are 32 bits wide, so the u32 of the *)
(* length prefix is modelled as a LenBits-bit unsigned integer, the usize  *)
(* of a 32-bit target as a LenBits-bit one (usize = u32 there) and the     *)
(* usize of a 64-bit target as a 2*LenBits-bit one.  Word widths, byte     *)
(* values and the arithmetic on them are those of the source.              *)
(***************************************************************************)
EXTENDS Integers, Sequences, FiniteSets, TLC

\* Width, in bits, of the model's u32 (the scale of the model).
LenBits == 8
\* Longest byte buffer handed to reverse_endian.
MaxBufLen == 17

VARIABLES T, O, host, bv, dest, input, result, rb, rev

vars == <<T, O, host, bv, dest, input, result, rb, rev>>

----------------------------------------------------------------------------
(* Types and targets *)

\* mem::size_of::<T>() for T in u8, u16, u32, u64.
WordSizes == {1, 2, 4, 8}

\* bitvec::order: Msb0 and Lsb0.
BitOrders == {"Msb0", "Lsb0"}

\* u32::max_value()
U32Max == 2^LenBits - 1

\* usize::max_value() of a target.
UsizeMax(h) == 2^h.usize_bits - 1

\* The compilation targets: cfg!(target_endian), the width of usize, and
\* whether integer overflow is checked (debug profile) or wraps (release).
\* No sum of the model overflows the wide usize, so one profile stands for both.
Hosts ==
    [endian: {"little", "big"}, usize_bits: {2 * LenBits}, overflow_checks: {FALSE}]
    \cup [endian: {"little", "big"}, usize_bits: {LenBits}, overflow_checks: BOOLEAN]

Nodes == {"a", "b"}

OtherEndian(h) ==
    [h EXCEPT !.endian = IF h.endian = "little" THEN "big" ELSE "little"]

----------------------------------------------------------------------------
(* reverse_endian *)

\* <[u8]>::swap(a, b), indices from 0.
swap(v, a, b) == [v EXCEPT ![a + 1] = v[b + 1], ![b + 1] = v[a + 1]]

\* Mutant: the chunk base is i instead of i * size_of_t.
RECURSIVE reverse_inner_stride(_, _, _, _)
reverse_inner_stride(v, i, size_of_t, j) ==
    IF j >= size_of_t \div 2 THEN v
    ELSE reverse_inner_stride(swap(v, i + j, i + (size_of_t - 1) - j),
                              i, size_of_t, j + 1)

\* Mutant: the inner loop runs over the whole word, swapping every pair twice.
RECURSIVE reverse_inner_full(_, _, _, _)
reverse_inner_full(v, i, size_of_t, j) ==
    IF j >= size_of_t THEN v
    ELSE reverse_inner_full(swap(v, i * size_of_t + j, i * size_of_t + (size_of_t - 1) - j),
                            i, size_of_t, j + 1)

\* for j in 0..size_of_t / 2 { swap(i * size_of_t + j, i * size_of_t + (size_of_t - 1) - j) }
RECURSIVE reverse_inner(_, _, _, _)
reverse_inner(v, i, size_of_t, j) ==
    IF j >= size_of_t \div 2 THEN v
    ELSE reverse_inner(swap(v, i * size_of_t + j, i * size_of_t + (size_of_t - 1) - j),
                       i, size_of_t, j + 1)

\* for i in 0..vec_u8.len() / size_of_t { ... }
RECURSIVE reverse_outer(_, _, _)
reverse_outer(v, size_of_t, i) ==
    IF i >= Len(v) \div size_of_t THEN v
    ELSE reverse_outer(reverse_inner(v, i, size_of_t, 0), size_of_t, i + 1)

reverse_endian(vec_u8, size_of_t) == reverse_outer(vec_u8, size_of_t, 0)

----------------------------------------------------------------------------
(* required_bytes *)

\* usize addition: panics when overflow is checked, wraps otherwise.
usize_add(h, x, y) ==
    IF x + y > UsizeMax(h)
    THEN [panic |-> h.overflow_checks, val |-> (x + y) % (UsizeMax(h) + 1)]
    ELSE [panic |-> FALSE, val |-> x + y]

\* usize subtraction.
usize_sub(h, x, y) ==
    IF x < y
    THEN [panic |-> h.overflow_checks, val |-> (x - y) % (UsizeMax(h) + 1)]
    ELSE [panic |-> FALSE, val |-> x - y]

\* Mutant: rounds down.
required_bytes_floor(h, size_of_t, bits) ==
    [panic |-> FALSE, val |-> (bits \div (size_of_t * 8)) * size_of_t]

\* (bits + element_bits - 1) / element_bits * mem::size_of::<T>()
required_bytes(h, size_of_t, bits) ==
    LET element_bits == size_of_t * 8
        sum == usize_add(h, bits, element_bits)
        dec == usize_sub(h, sum.val, 1)
    IN  IF sum.panic \/ dec.panic
        THEN [panic |-> TRUE, val |-> 0]
        ELSE [panic |-> FALSE, val |-> (dec.val \div element_bits) * size_of_t]

\* ceil(bit_count / word_bits) * word_bytes, in unbounded arithmetic.
CeilBytes(size_of_t, bits) ==
    ((bits + size_of_t * 8 - 1) \div (size_of_t * 8)) * size_of_t

----------------------------------------------------------------------------
(* Bit vectors: a bit length and the native byte image of the backing     *)
(* Vec<T>, as bitvec lays it out (head index 0).                          *)

\* Number of backing elements of a vector of len bits.
Elts(size_of_t, len) == (len + size_of_t * 8 - 1) \div (size_of_t * 8)

\* Offset, inside a word's native byte image, of the byte of significance s.
ByteOffset(h, size_of_t, s) ==
    IF h.endian = "little" THEN s ELSE size_of_t - 1 - s

\* Position (0 = least significant) inside a word of the bit with index j.
BitPos(order, size_of_t, j) ==
    IF order = "Msb0" THEN size_of_t * 8 - 1 - j ELSE j

\* bv[k]: the bit with index k.
GetBit(h, size_of_t, order, v, k) ==
    LET w == k \div (size_of_t * 8)
        p == BitPos(order, size_of_t, k % (size_of_t * 8))
        byte == v.mem[w * size_of_t + ByteOffset(h, size_of_t, p \div 8) + 1]
    IN  (byte \div 2^(p % 8)) % 2

\* The vector of the len bits bit[0], bit[1], ..., every bit of the last
\* element beyond len set to fill.
FromBits(h, size_of_t, order, len, bit, fill) ==
    LET W == size_of_t * 8
        Val(w, p) ==
            LET k == w * W + BitPos(order, size_of_t, p)
            IN  IF k < len THEN bit[k] ELSE fill
        ByteAt(m) ==
            LET w == m \div size_of_t
                s == ByteOffset(h, size_of_t, m % size_of_t)
            IN  Val(w, 8 * s) + 2 * Val(w, 8 * s + 1) + 4 * Val(w, 8 * s + 2)
                + 8 * Val(w, 8 * s + 3) + 16 * Val(w, 8 * s + 4)
                + 32 * Val(w, 8 * s + 5) + 64 * Val(w, 8 * s + 6)
                + 128 * Val(w, 8 * s + 7)
    IN  [len |-> len,
         mem |-> [m \in 1..(Elts(size_of_t, len) * size_of_t) |-> ByteAt(m - 1)]]

\* The bit patterns of the test data: all ones, and every third bit set.
Patterns == {"ones", "mod3"}

PatBit(pat, k) == IF pat = "ones" THEN 1 ELSE IF k % 3 = 0 THEN 1 ELSE 0

PatBits(pat, len) == [k \in 0..(len - 1) |-> PatBit(pat, k)]

\* BitPtr::MAX_BITS: the longest bit vector a target can hold.
MAX_BITS(h) == UsizeMax(h) \div 8

\* PartialEq of bit sequences: same length, same bit at every index below it.
SameBits(h1, v1, h2, v2, size_of_t, order) ==
    /\ v1.len = v2.len
    /\ \A k \in 0..(v1.len - 1) :
          GetBit(h1, size_of_t, order, v1, k) = GetBit(h2, size_of_t, order, v2, k)

\* The backing words as values: each word's bytes from least to most significant.
WordsLE(h, size_of_t, v) ==
    [m \in 1..Len(v.mem) |->
        v.mem[((m - 1) \div size_of_t) * size_of_t
              + ByteOffset(h, size_of_t, (m - 1) % size_of_t) + 1]]

\* self.as_slice().as_byte_slice(): the bytes of the live elements.
as_byte_slice(size_of_t, v) == SubSeq(v.mem, 1, Elts(size_of_t, v.len) * size_of_t)

\* BitSlice::to_vec / BitBox::from_bitslice: an owned copy equal to the view.
\* Whether the copy keeps the bits beyond len or clears them is left open.
to_vec(h, size_of_t, order, s) ==
    {s, FromBits(h, size_of_t, order, s.len,
                 [k \in 0..(s.len - 1) |-> GetBit(h, size_of_t, order, s, k)], 0)}

\* as_bitslice(): a view of the whole vector or box.
as_bitslice(v) == v

----------------------------------------------------------------------------
(* The collaborators: Compact<u32>, Input, read_vec_from_u8s *)

\* Compact(v).encode_to: one byte below 2^6, two bytes below 2^14 (the u32 of
\* the model has no larger value).
Compact_encode(v) ==
    IF v < 64 THEN <<4 * v>>
    ELSE <<(4 * v + 1) % 256, (4 * v + 1) \div 256>>

\* <Compact<u32>>::decode: the value and the input left, or an error on a cut
\* off, non-minimal or out-of-range prefix.
Compact_decode(inp) ==
    LET err == [ok |-> FALSE, val |-> 0, rest |-> inp]
    IN  IF Len(inp) = 0 THEN err
        ELSE IF inp[1] % 4 = 0
        THEN [ok |-> TRUE, val |-> inp[1] \div 4, rest |-> Tail(inp)]
        ELSE IF inp[1] % 4 = 1
        THEN IF Len(inp) < 2 THEN err
             ELSE LET x == (inp[1] + 256 * inp[2]) \div 4
                  IN  IF x > 63 /\ x <= U32Max
                      THEN [ok |-> TRUE, val |-> x, rest |-> Tail(Tail(inp))]
                      ELSE err
        ELSE err

\* read_vec_from_u8s::<I, u8>(input, len): exactly len bytes, or an error when
\* fewer remain.
read_vec_from_u8s(inp, len) ==
    IF Len(inp) < len
    THEN [ok |-> FALSE, bytes |-> <<>>, rest |-> inp]
    ELSE [ok |-> TRUE, bytes |-> SubSeq(inp, 1, len),
          rest |-> SubSeq(inp, len + 1, Len(inp))]

----------------------------------------------------------------------------
(* Encode *)

NoBytes == <<>>

\* Mutant: no length check, the length is cast to u32.
BitVec_encode_to_clip(h, size_of_t, v) ==
    LET byte_slice == as_byte_slice(size_of_t, v)
    IN  [status |-> "ok",
         bytes |-> Compact_encode(v.len % (U32Max + 1))
                   \o (IF h.endian = "big" /\ size_of_t > 1
                       THEN reverse_endian(byte_slice, size_of_t)
                       ELSE byte_slice)]

\* Mutant: the native bytes are written on every target.
BitVec_encode_to_native(h, size_of_t, v) ==
    IF v.len > U32Max
    THEN [status |-> "panic", bytes |-> NoBytes]
    ELSE [status |-> "ok",
          bytes |-> Compact_encode(v.len) \o as_byte_slice(size_of_t, v)]

\* Mutant: the whole allocation is written, one spare element included.
BitVec_encode_to_spare(h, size_of_t, v) ==
    IF v.len > U32Max
    THEN [status |-> "panic", bytes |-> NoBytes]
    ELSE [status |-> "ok",
          bytes |-> Compact_encode(v.len) \o as_byte_slice(size_of_t, v)
                    \o [i \in 1..size_of_t |-> 0]]

\* <BitVec<O, T> as Encode>::encode_to: what is written to dest, or a panic.
BitVec_encode_to(h, size_of_t, v) ==
    IF v.len > U32Max
    THEN [status |-> "panic", bytes |-> NoBytes]
    ELSE LET byte_slice == as_byte_slice(size_of_t, v)
         IN  [status |-> "ok",
              bytes |-> Compact_encode(v.len)
                        \o (IF h.endian = "big" /\ size_of_t > 1
                            THEN reverse_endian(byte_slice, size_of_t)
                            ELSE byte_slice)]

\* Mutant: the view's bytes are written without the length prefix.
BitSlice_encode_to_raw(h, size_of_t, order, s) ==
    {[status |-> "ok", bytes |-> as_byte_slice(size_of_t, s)]}

\* <BitSlice<O, T> as Encode>::encode_to: self.to_vec().encode_to(dest).
BitSlice_encode_to(h, size_of_t, order, s) ==
    {BitVec_encode_to(h, size_of_t, v) : v \in to_vec(h, size_of_t, order, s)}

\* <BitBox<O, T> as Encode>::encode_to: self.as_bitslice().encode_to(dest).
BitBox_encode_to(h, size_of_t, order, b) ==
    BitSlice_encode_to(h, size_of_t, order, as_bitslice(b))

----------------------------------------------------------------------------
(* Decode *)

NoVec == [len |-> 0, mem |-> <<>>]

\* A decode outcome: Ok(val), Err, or a panic; rest is the input left and
\* alloc tells whether the word array was allocated.
Outcome(tag, val, rest, alloc) ==
    [tag |-> tag, val |-> val, rest |-> rest, alloc |-> alloc]

\* <BitVec<O, T> as Decode>::decode
BitVec_decode(h, size_of_t, inp) ==
    LET c == Compact_decode(inp)
    IN  IF ~c.ok THEN Outcome("Err", NoVec, c.rest, FALSE)
        ELSE
        LET bits == c.val
            req == required_bytes(h, size_of_t, bits)
        IN  IF req.panic THEN Outcome("Panic", NoVec, c.rest, FALSE)
            ELSE
            LET rd == read_vec_from_u8s(c.rest, req.val)
            IN  IF ~rd.ok THEN Outcome("Err", NoVec, rd.rest, FALSE)
                ELSE
                LET vec_u8 == IF h.endian = "big" /\ size_of_t > 1
                              THEN reverse_endian(rd.bytes, size_of_t)
                              ELSE rd.bytes
                    aligned_len == req.val \div size_of_t
                    \* vec![0u8.into(); ..], then the byte-wise copy
                    aligned_vec ==
                        [i \in 1..(aligned_len * size_of_t) |->
                            IF i <= Len(vec_u8) THEN vec_u8[i] ELSE 0]
                    result_len == aligned_len * size_of_t * 8
                IN  IF Len(vec_u8) > aligned_len * size_of_t
                    THEN Outcome("UB", NoVec, rd.rest, TRUE)
                    ELSE IF ~(bits <= result_len)
                    THEN Outcome("Panic", NoVec, rd.rest, TRUE)
                    ELSE Outcome("Ok", [len |-> bits, mem |-> aligned_vec],
                                 rd.rest, TRUE)

\* <BitBox<O, T> as Decode>::decode:
\* Ok(Self::from_bitslice(BitVec::<O, T>::decode(input)?.as_bitslice()))
BitBox_decode(h, size_of_t, order, inp) ==
    LET r == BitVec_decode(h, size_of_t, inp)
    IN  IF r.tag = "Ok"
        THEN {[r EXCEPT !.val = v] : v \in to_vec(h, size_of_t, order, as_bitslice(r.val))}
        ELSE {r}

----------------------------------------------------------------------------
(* State *)

IdleDest == [status |-> "idle", via |-> "none", bytes |-> NoBytes]

NoResult ==
    [tag |-> "none", val |-> NoVec, rest |-> NoBytes, alloc |-> FALSE,
     src |-> "none", kind |-> "none", cut |-> 0]

IdleRb == [bits |-> 0, done |-> FALSE, out |-> [panic |-> FALSE, val |-> 0]]

IdleRev == [orig |-> NoBytes, cur |-> NoBytes, size |-> 1, applied |-> 0]

\* Bit lengths around the word boundaries of the test data and around the
\* largest length the prefix can carry.
Lens == {0, 1, 7, 8, 9, 15, 16, 17, 31, 32, 33, 63, 64, 65, U32Max, U32Max + 1}

\* Byte buffers [start, start + 1, ...] of n bytes.
Ramp(n, start) == [i \in 1..n |-> (start + i - 1) % 256]

----------------------------------------------------------------------------
(* The codec between two targets of opposite endianness: each node owns a  *)
(* vector with the same bits (the bits beyond the length are each node's   *)
(* own), encodes it into its sink, and node a decodes what a sink holds,   *)
(* whole or with its last byte cut off.                                    *)

Init ==
    /\ T \in WordSizes
    /\ O \in BitOrders
    /\ \E h \in Hosts : host = [a |-> h, b |-> OtherEndian(h)]
    /\ \E len \in Lens, pat \in Patterns, fa \in {0, 1}, fb \in {0, 1} :
          /\ len <= MAX_BITS(host.a)
          /\ bv = [a |-> FromBits(host.a, T, O, len, PatBits(pat, len), fa),
                   b |-> FromBits(host.b, T, O, len, PatBits(pat, len), fb)]
    /\ dest = [n \in Nodes |-> IdleDest]
    /\ input = NoBytes
    /\ result = NoResult
    /\ rb = IdleRb
    /\ rev = IdleRev

Written(n, via, r) ==
    dest' = [dest EXCEPT ![n] = [status |-> r.status, via |-> via,
                                 bytes |-> @.bytes \o r.bytes]]

\* v.encode() of the owned vector
EncodeVec(n) ==
    /\ dest[n].status = "idle"
    /\ Written(n, "vec", BitVec_encode_to(host[n], T, bv[n]))
    /\ UNCHANGED <<T, O, host, bv, input, result, rb, rev>>

\* slice.encode() of a view of the vector
EncodeSlice(n) ==
    /\ dest[n].status = "idle"
    /\ \E r \in BitSlice_encode_to(host[n], T, O, as_bitslice(bv[n])) :
          Written(n, "slice", r)
    /\ UNCHANGED <<T, O, host, bv, input, result, rb, rev>>

\* bb.encode() of a box holding the vector
EncodeBox(n) ==
    /\ dest[n].status = "idle"
    /\ \E r \in BitBox_encode_to(host[n], T, O, bv[n]) : Written(n, "box", r)
    /\ UNCHANGED <<T, O, host, bv, input, result, rb, rev>>

\* The bytes of node m's sink, the last cut of them cut off.
Received(m, cut) == SubSeq(dest[m].bytes, 1, Len(dest[m].bytes) - cut)

Decoded(r, m, kind, cut) ==
    result' = [tag |-> r.tag, val |-> r.val, rest |-> r.rest, alloc |-> r.alloc,
               src |-> m, kind |-> kind, cut |-> cut]

\* BitVec::<O, T>::decode(&mut &encoded[..])
DecodeVec(m, cut) ==
    /\ result.tag = "none"
    /\ dest[m].status = "ok"
    /\ cut <= Len(dest[m].bytes)
    /\ Decoded(BitVec_decode(host.a, T, Received(m, cut)), m, "vec", cut)
    /\ UNCHANGED <<T, O, host, bv, dest, input, rb, rev>>

\* BitBox::<O, T>::decode(&mut &encoded[..])
DecodeBox(m, cut) ==
    /\ result.tag = "none"
    /\ dest[m].status = "ok"
    /\ cut <= Len(dest[m].bytes)
    /\ \E r \in BitBox_decode(host.a, T, O, Received(m, cut)) :
          Decoded(r, m, "box", cut)
    /\ UNCHANGED <<T, O, host, bv, dest, input, rb, rev>>

Next ==
    \/ \E n \in Nodes : EncodeVec(n)
    \/ EncodeSlice("a")
    \/ EncodeBox("a")
    \/ \E m \in Nodes, cut \in {0, 1} : DecodeVec(m, cut)
    \/ \E m \in Nodes, cut \in {0, 1} : DecodeBox(m, cut)

Spec == Init /\ [][Next]_vars

----------------------------------------------------------------------------
(* Decoding what a peer sends: any length prefix the u32 can carry, with   *)
(* too few, exactly enough or too many payload bytes, or a prefix cut off. *)

HostileLens ==
    {n \in Lens : n <= U32Max}
    \cup {U32Max - d : d \in {6, 7, 14, 15, 30, 31, 62, 63, 64}}

PayloadLens(size_of_t, n) ==
    {k \in {0, CeilBytes(size_of_t, n) - 1, CeilBytes(size_of_t, n),
            CeilBytes(size_of_t, n) + 1} : k >= 0}

HostileInputs(size_of_t) ==
    UNION {{Compact_encode(n) \o Ramp(k, 1) : k \in PayloadLens(size_of_t, n)} :
             n \in HostileLens}
    \cup {NoBytes, SubSeq(Compact_encode(64), 1, 1), SubSeq(Compact_encode(U32Max), 1, 1)}

InitHostile ==
    /\ T \in WordSizes
    /\ O \in BitOrders
    /\ \E h \in Hosts : host = [a |-> h, b |-> OtherEndian(h)]
    /\ bv = [n \in Nodes |-> NoVec]
    /\ dest = [n \in Nodes |-> IdleDest]
    /\ input \in HostileInputs(T)
    /\ result = NoResult
    /\ rb = IdleRb
    /\ rev = IdleRev

\* BitVec::<O, T>::decode(input)
DecodeInputVec ==
    /\ result.tag = "none"
    /\ Decoded(BitVec_decode(host.a, T, input), "peer", "vec", 0)
    /\ UNCHANGED <<T, O, host, bv, dest, input, rb, rev>>

\* BitBox::<O, T>::decode(input)
DecodeInputBox ==
    /\ result.tag = "none"
    /\ \E r \in BitBox_decode(host.a, T, O, input) : Decoded(r, "peer", "box", 0)
    /\ UNCHANGED <<T, O, host, bv, dest, input, rb, rev>>

NextHostile == DecodeInputVec \/ DecodeInputBox

SpecHostile == InitHostile /\ [][NextHostile]_vars

----------------------------------------------------------------------------
(* required_bytes on every bit count the prefix can carry *)

InitRB ==
    /\ T \in WordSizes
    /\ O = "Msb0"
    /\ \E h \in Hosts : host = [a |-> h, b |-> OtherEndian(h)]
    /\ bv = [n \in Nodes |-> NoVec]
    /\ dest = [n \in Nodes |-> IdleDest]
    /\ input = NoBytes
    /\ result = NoResult
    /\ \E bits \in 0..U32Max : rb = [IdleRb EXCEPT !.bits = bits]
    /\ rev = IdleRev

\* required_bytes::<T>(bits)
RequiredBytes ==
    /\ ~rb.done
    /\ rb' = [rb EXCEPT !.done = TRUE, !.out = required_bytes(host.a, T, rb.bits)]
    /\ UNCHANGED <<T, O, host, bv, dest, input, result>>
    /\ UNCHANGED rev

NextRB == RequiredBytes

SpecRB == InitRB /\ [][NextRB]_vars

----------------------------------------------------------------------------
(* reverse_endian on byte buffers of every length up to MaxBufLen *)

Buffers ==
    {Ramp(n, start) : n \in 0..MaxBufLen, start \in {1, 250}}
    \cup {[i \in 1..n |-> i % 3] : n \in 0..MaxBufLen}

InitRev ==
    /\ T = 1
    /\ O = "Msb0"
    /\ host = [a |-> [endian |-> "little", usize_bits |-> 2 * LenBits,
                      overflow_checks |-> FALSE],
               b |-> [endian |-> "big", usize_bits |-> 2 * LenBits,
                      overflow_checks |-> FALSE]]
    /\ bv = [n \in Nodes |-> NoVec]
    /\ dest = [n \in Nodes |-> IdleDest]
    /\ input = NoBytes
    /\ result = NoResult
    /\ rb = IdleRb
    /\ \E b \in Buffers, size \in WordSizes :
          rev = [orig |-> b, cur |-> b, size |-> size, applied |-> 0]

\* reverse_endian(&mut buf[..], size)
ReverseEndian ==
    /\ rev.applied < 2
    /\ rev' = [rev EXCEPT !.cur = reverse_endian(@, rev.size), !.applied = @ + 1]
    /\ UNCHANGED <<T, O, host, bv, dest, input, result, rb>>

NextRev == ReverseEndian

SpecRev == InitRev /\ [][NextRev]_vars

----------------------------------------------------------------------------
(* Claims *)

\* A little-endian target: its native bytes are the wire's bytes.
WireHost == [endian |-> "little", usize_bits |-> 2 * LenBits, overflow_checks |-> FALSE]

\* The bit sequence a wire record carries: its prefix and its payload.
WireVec(bytes) ==
    [len |-> Compact_decode(bytes).val, mem |-> Compact_decode(bytes).rest]

\* The length prefix is cut off.
PrefixCutOff(inp) == Len(inp) = 0 \/ (inp[1] % 4 = 1 /\ Len(inp) < 2)

\* C1: decoding the bytes encode_to wrote for a vector succeeds and returns
\* a vector of the same bit length with the same bit at every index below
\* it, for every word width and bit order, on the encoding target itself
\* (little or big endian) and on the target of the other endianness.
C1_RoundTrip ==
    (result.kind = "vec" /\ result.cut = 0 /\ result.src \in Nodes
        /\ dest[result.src].via = "vec")
    => /\ result.tag = "Ok"
       /\ SameBits(host.a, result.val, host[result.src], bv[result.src], T, O)
       /\ result.rest = NoBytes

C1_Witness ==
    /\ result.kind = "vec" /\ result.cut = 0 /\ result.src = "a"
    /\ dest.a.via = "vec" /\ result.tag = "Ok"
    /\ host.a.endian = "big" /\ T = 8 /\ result.val.len = 65
    /\ SameBits(host.a, result.val, host.a, bv.a, T, O)

\* C2: BitVec decode never ends in a panic, whatever bit count the peer
\* sends: a bit count above the capacity of the materialized word array is
\* answered with Err.
C2_NoFatalAssertion ==
    /\ result.tag \in {"none", "Ok", "Err"}
    /\ result.tag = "Ok" => result.val.len <= Len(result.val.mem) * 8

\* C3: when the length prefix is cut off, or fewer bytes remain than
\* ceil(bit_count / word_bits) * word_bytes, decode returns Err before the
\* word array is allocated, returns no vector and reads nothing past the input.
C3_TruncatedFailsCleanly ==
    (result.tag # "none" /\ result.src = "peer"
        /\ \/ PrefixCutOff(input)
           \/ /\ Compact_decode(input).ok
              /\ CeilBytes(T, Compact_decode(input).val)
                    > Len(Compact_decode(input).rest))
    => /\ result.tag = "Err"
       /\ ~result.alloc
       /\ result.val = NoVec

\* C4 as claimed: two vectors with the same bit length and the same bit
\* values, encoded with the same word width on a little-endian and on a
\* big-endian target, give identical bytes.
C4_SameBitsSameBytes ==
    (dest.a.status = "ok" /\ dest.a.via = "vec" /\ dest.b.status = "ok"
        /\ SameBits(host.a, bv.a, host.b, bv.b, T, O))
    => dest.a.bytes = dest.b.bytes

\* C4 as amended: two vectors with the same bit length and the same backing
\* word values (the bits of the last word beyond the length included) give
\* identical bytes on a little-endian and on a big-endian target, and on
\* every target the payload is the concatenation, in order, of each backing
\* word's little-endian bytes.
C4_SameWordsSameBytes ==
    /\ (dest.a.status = "ok" /\ dest.a.via = "vec" /\ dest.b.status = "ok"
          /\ bv.a.len = bv.b.len
          /\ WordsLE(host.a, T, bv.a) = WordsLE(host.b, T, bv.b))
       => dest.a.bytes = dest.b.bytes
    /\ \A n \in Nodes :
          (dest[n].status = "ok" /\ dest[n].via = "vec")
          => dest[n].bytes = Compact_encode(bv[n].len) \o WordsLE(host[n], T, bv[n])

C4_Witness ==
    /\ dest.a.status = "ok" /\ dest.a.via = "vec" /\ dest.b.status = "ok"
    /\ T = 4 /\ bv.a.len = 33
    /\ host.a.endian # host.b.endian
    /\ bv.a.mem # bv.b.mem
    /\ WordsLE(host.a, T, bv.a) = WordsLE(host.b, T, bv.b)
    /\ dest.a.bytes = dest.b.bytes

\* C5: encode_to of a vector longer than u32::MAX bits panics and writes
\* nothing to the sink; for every length up to u32::MAX it writes, first, the
\* compact encoding of exactly that length.
C5_LengthOverflow ==
    \A n \in Nodes :
        (dest[n].status # "idle" /\ dest[n].via = "vec")
        => IF bv[n].len > U32Max
           THEN dest[n].status = "panic" /\ dest[n].bytes = NoBytes
           ELSE /\ dest[n].status = "ok"
                /\ Compact_decode(dest[n].bytes).ok
                /\ Compact_decode(dest[n].bytes).val = bv[n].len
                /\ SubSeq(dest[n].bytes, 1, Len(Compact_encode(bv[n].len)))
                     = Compact_encode(bv[n].len)

C5_Witness ==
    /\ dest.a.via = "vec" /\ dest.a.status = "panic" /\ dest.a.bytes = NoBytes
    /\ bv.a.len = U32Max + 1
    /\ dest.b.status = "panic"

\* C6: what encode_to writes for n bits is the compact encoding of n followed
\* by exactly ceil(n / word_bits) * word_bytes payload bytes: a multiple of the
\* word size, none for the empty vector (the record is then the zero prefix
\* alone), and n / 8 bytes when n is a multiple of the word width.
C6_WireRecordShape ==
    \A n \in Nodes :
        dest[n].status = "ok"
        => LET pre == Compact_encode(bv[n].len)
               payload == Len(dest[n].bytes) - Len(pre)
           IN  /\ SubSeq(dest[n].bytes, 1, Len(pre)) = pre
               /\ payload = CeilBytes(T, bv[n].len)
               /\ payload = required_bytes(host[n], T, bv[n].len).val
               /\ payload % T = 0
               /\ bv[n].len = 0 => dest[n].bytes = <<0>>
               /\ bv[n].len % (T * 8) = 0 => payload * 8 = bv[n].len

C6_Witness ==
    /\ dest.a.status = "ok" /\ dest.a.via = "vec"
    /\ T = 4 /\ bv.a.len = 64
    /\ Len(dest.a.bytes) = Len(Compact_encode(64)) + 8

\* C7: required_bytes returns ceil(bit_count / word_bits) * word_bytes for
\* every bit count up to u32::MAX, every word width and every target, without
\* a panic and without wrapping.
C7_RequiredBytesExact ==
    rb.done => (~rb.out.panic /\ rb.out.val = CeilBytes(T, rb.bits))

\* C8 as claimed: encoding through a BitSlice view or a BitBox writes exactly
\* the bytes that encoding an owned BitVec holding the same bits writes.
C8_WrapperSameBytes ==
    (dest.a.status = "ok" /\ dest.a.via \in {"slice", "box"} /\ dest.b.status = "ok"
        /\ dest.b.via = "vec" /\ SameBits(host.a, bv.a, host.b, bv.b, T, O))
    => dest.a.bytes = dest.b.bytes

\* C8 as amended: encoding through a BitSlice view or a BitBox writes the same
\* length prefix and as many payload bytes as encoding an owned BitVec holding
\* the same bits, with the same bit at every index below the length (only
\* bits of the last word beyond the length can differ); decoding those bytes
\* as a BitVec gives a sequence equal to the view, decoding as a BitBox gives
\* a box equal to the original, and BitBox decode succeeds or fails exactly
\* when BitVec decode of the same input does.
C8_WrappersAgree ==
    /\ (dest.a.status = "ok" /\ dest.a.via \in {"slice", "box"})
       => /\ \A own \in {BitVec_encode_to(host.a, T, bv.a).bytes}
                      \cup (IF dest.b.status = "ok" THEN {dest.b.bytes} ELSE {}) :
                /\ Len(dest.a.bytes) = Len(own)
                /\ Compact_decode(dest.a.bytes).val = Compact_decode(own).val
                /\ SameBits(WireHost, WireVec(dest.a.bytes), WireHost, WireVec(own), T, O)
    /\ (result.kind = "vec" /\ result.cut = 0 /\ result.src = "a"
          /\ dest.a.via \in {"slice", "box"})
       => /\ result.tag = "Ok"
          /\ SameBits(host.a, result.val, host.a, bv.a, T, O)
    /\ (result.kind = "box" /\ result.src \in Nodes)
       => /\ result.tag = BitVec_decode(host.a, T, Received(result.src, result.cut)).tag
          /\ result.cut = 0
             => /\ result.tag = "Ok"
                /\ SameBits(host.a, result.val, host[result.src], bv[result.src], T, O)

C8_Witness ==
    /\ dest.a.status = "ok" /\ dest.a.via = "box"
    /\ result.kind = "box" /\ result.src = "a" /\ result.cut = 0
    /\ result.tag = "Ok"
    /\ T = 2 /\ bv.a.len = 17
    /\ dest.a.bytes # BitVec_encode_to(host.a, T, bv.a).bytes
    /\ SameBits(host.a, result.val, host.a, bv.a, T, O)

\* C9: applying reverse_endian twice with the same word size gives back the
\* original buffer, whatever its length; with word size 1 one application
\* already leaves it unchanged.
C9_SelfInverse ==
    /\ rev.applied = 2 => rev.cur = rev.orig
    /\ (rev.applied = 1 /\ rev.size = 1) => rev.cur = rev.orig

C9_Witness ==
    /\ rev.applied = 2 /\ rev.size = 4
    /\ Len(rev.orig) >= 8 /\ Len(rev.orig) % 4 # 0
    /\ rev.cur = rev.orig
    /\ reverse_endian(rev.orig, rev.size) # rev.orig

\* C10: after reverse_endian(b, w) the byte at i*w + j is the original byte
\* at i*w + (w-1-j) for every complete chunk i and every j < w; the length
\* is unchanged and the bytes after the last complete chunk stay in place.
C10_ChunkReversal ==
    rev.applied = 1
    => /\ Len(rev.cur) = Len(rev.orig)
       /\ \A i \in 0..(Len(rev.orig) \div rev.size - 1), j \in 0..(rev.size - 1) :
             rev.cur[i * rev.size + j + 1] = rev.orig[i * rev.size + (rev.size - 1 - j) + 1]
       /\ \A k \in ((Len(rev.orig) \div rev.size) * rev.size + 1)..Len(rev.orig) :
             rev.cur[k] = rev.orig[k]

C10_Witness ==
    /\ rev.applied = 1 /\ rev.size = 2
    /\ rev.orig = <<1, 2, 3, 4>>
    /\ rev.cur = <<2, 1, 4, 3>>

====
